---- MODULE Spec2Model ----
(***************************************************************************)
(* Analytics subsystem of the blog application: the track endpoint         *)
(* (POST /api/analytics/track), the PageView and PostAnalytics             *)
(* collections it writes, and the admin queries that read them.            *)
(*                                                                         *)
(* Time is a logical clock `now` counted in minutes since the epoch;        *)
(* TicksPerDay of them make one calendar day.  Every await of the track    *)
(* handler is a separate action, so concurrent requests interleave at      *)
(* exactly the points where the event loop can switch between them.        *)
(***************************************************************************)
EXTENDS Integers, Sequences, FiniteSets, TLC

\* ------------------------------------------------------------------ bounds
\* Concurrent request handlers of the main specification.
MaxSlots == 2
\* Track requests received in one behaviour of the main specification.
MaxRequests == 2
\* Days the clock of the main, ring-buffer and query specifications runs.
MaxNow == 1
\* Track requests received in one behaviour of the ring-buffer specification.
MaxRingCalls == 4
\* Page views of P1 handled before the ring-buffer specification starts.
RingPrefill == 29
\* Track requests received in one behaviour of the query specification.
MaxQueryCalls == 4
\* Track requests received in one behaviour of the mixed specification.
MaxMixedCalls == 2
\* Track requests and clock steps of the real-time specification.
MaxRealtimeCalls == 2
MaxRealtimeElapses == 3
\* Track requests and clock steps of the series specification.
MaxSeriesCalls == 3
MaxSeriesElapses == 2
\* Track requests received in one behaviour of the ranking specification.
MaxRankCalls == 3
\* Track requests received in one behaviour of the breakdown specification.
MaxGeoCalls == 3
\* Track requests received in one behaviour of the classifier specification.
MaxClassifyCalls == 2
\* The browser clock of the tracker specification runs to MaxTrackerClock ms;
\* the tab shows at most MaxPageViews pages and gets MaxBeforeUnloads
\* beforeunload events; the endpoint handles MaxTrackerCalls of its calls.
MaxTrackerClock == 7000
MaxPageViews == 2
MaxBeforeUnloads == 1
MaxTrackerCalls == 3
\* Concurrent requests reading the post and reads started in one behaviour
\* of the reads specification.
MaxReaders == 3
MaxReads == 4
\* The capacity of the cache of the model (the client configures 100), the
\* calls of cachedGet in one behaviour and the minutes its clock runs.
maxEntries == 2
MaxCacheCalls == 4
MaxCacheClock == 2
\* The maxRequests option of the limiter of the model (the default is 30),
\* the requests of one behaviour and the ms its clock runs.
maxRequests == 2
MaxLimitCalls == 5
MaxLimiterClock == 180000
\* The calendar of the model: every month has DaysPerMonth days.
DaysPerMonth == 30
MonthsPerYear == 12

\* ------------------------------------------------------------------ constants
\* $slice: -30 of the $push on viewHistory.
HistoryCap == 30
\* Minutes in one calendar day.
TicksPerDay == 1440
\* GET /realtime looks back 5 * 60 * 1000 ms.
RealtimeMinutes == 5
\* $limit of the top pages of GET /realtime.
TopPagesLimit == 10
\* $limit of the top posts of GET /my-stats.
MyTopPostsLimit == 5
\* $limit of the country and of the referrer breakdown of GET /geographic.
CountryLimit == 20
ReferrerLimit == 10
\* The engagement query looks back 30 days.
EngagementDays == 30
\* Default `limit` of the popular-posts query.
DefaultLimit == 10

\* setTimeout(..., 1000) of the page-view call, in ms.
TrackDelay == 1000
\* trackEngagement reports a stay when duration > 5 (seconds).
MinDuration == 5
\* Date.now() counts ms; duration is in seconds.
MsPerSecond == 1000

\* windowMs = 60 * 1000 of perUserRateLimit.
windowMs == 60000
\* The sweep removes a record when now > record.resetAt + 60000.
SweepSlack == 60000
\* res.status(429)
StatusTooMany == 429

\* An absent request field (undefined) or a null reference.
None == "none"
\* An absent numeric request field.
NoNumber == -1

\* ------------------------------------------------------------------ collaborators
\* Posts and their authors, owned by the post CRUD domain.  The account of
\* u3, the author of P3, was deleted: P3.author is a dangling reference.
PostAuthor == [P1 |-> "u1", P2 |-> "u2", P3 |-> "u3"]
Posts == DOMAIN PostAuthor
\* The slug of each post: /post/<slug> is its detail page.
PostSlug == [P1 |-> "first-post", P2 |-> "second-post", P3 |-> "third-post"]
Users == {"u1", "u2"}

\* ------------------------------------------------------------------ helpers
\* The last n elements of s ($slice: -n).
LastN(s, n) == IF Len(s) <= n THEN s ELSE SubSeq(s, Len(s) - n + 1, Len(s))

\* The first n elements of s ($limit: n, $slice: n).
FirstN(s, n) == IF Len(s) <= n THEN s ELSE SubSeq(s, 1, n)

RECURSIVE SumSeq(_)
SumSeq(s) == IF s = <<>> THEN 0 ELSE Head(s) + SumSeq(Tail(s))

\* Math.round(n / d) for d > 0: halves round towards +infinity.
MathRound(n, d) == (2 * n + d) \div (2 * d)

\* MongoDB $round of n / d to 0 places, d > 0: halves round to the even integer.
MongoRound(n, d) ==
  LET q == n \div d
      r == n % d
  IN  IF 2 * r < d THEN q
      ELSE IF 2 * r > d THEN q + 1
      ELSE IF q % 2 = 0 THEN q ELSE q + 1

\* ------------------------------------------------------------------ state
VARIABLES
  now,            \* the clock (Date.now(), new Date())
  pageViews,      \* the PageView collection, in insertion order
  postAnalytics,  \* the PostAnalytics collection, in insertion order
  dailyStats,     \* the DailyStats collection
  slot,           \* slot[c]: the track request handler c is running
  hist,           \* history of the behaviour (not program state)
  reply,          \* the response of the admin query just answered
  tracker,        \* the AnalyticsTracker component of one browser tab
  blog,           \* one post of the Post collection and the requests reading it
  apiCache,       \* the ApiCache of the client
  userRateLimits  \* the records of perUserRateLimit

vars == <<now, pageViews, postAnalytics, dailyStats, slot, hist, reply,
          tracker, blog, apiCache, userRateLimits>>

\* The state of the analytics routes.
analytics == <<now, pageViews, postAnalytics, dailyStats, slot, hist, reply>>

\* What the analytics routes leave alone.
elsewhere == <<tracker, blog, apiCache, userRateLimits>>

Slots == 1 .. MaxSlots

\* A header is modelled by the set of the words its value contains, written
\* as they are in the value; an absent and an empty header are both {}.
NoHeader == {}

\* A referer header: the string, whether new URL() parses it, and the labels
\* of the hostname when it does.  NoReferer is the absent or empty header.
NoReferer == [href |-> "", parses |-> FALSE, hostname |-> <<>>]

\* A request: the fields of req.body and the user-agent and referer headers.
NoBody == [path |-> None, postId |-> None, sessionId |-> None,
           duration |-> NoNumber, scrollDepth |-> NoNumber,
           userAgent |-> NoHeader, referer |-> NoReferer]

NoDoc == [post |-> None, sessionId |-> None, path |-> None,
          userAgent |-> NoHeader, referer |-> NoReferer, device |-> "unknown", browser |-> "Unknown",
          os |-> "Unknown", country |-> None,
          duration |-> 0, scrollDepth |-> 0, createdAt |-> 0]

IdleSlot == [pc |-> "idle", body |-> NoBody, doc |-> NoDoc, status |-> 0,
             entry |-> [date |-> 0, views |-> 0], found |-> 0]

NoReply == [kind |-> "none"]

\* The history of a behaviour: the bodies of the track requests received, the
\* number of 200 responses to requests for each post, the number of storage
\* failures, whether a findOneAndUpdate was applied to a document another
\* request had changed (raced) or created (createRaced) after its filter was
\* evaluated, the entries pushed to each post's viewHistory, in order, and
\* the number of steps the clock of Elapse made.
NoHist == [log |-> <<>>,
           ok |-> [p \in Posts |-> 0],
           failures |-> 0,
           raced |-> FALSE,
           createRaced |-> FALSE,
           pushLog |-> [p \in Posts |-> <<>>],
           elapses |-> 0]

\* ------------------------------------------------------------------ request inputs
\* Request bodies of the main specification.  A view carries no engagement
\* fields; a close-out carries the duration and scroll depth of the visit.
Body(pa, po, se, du, sc) ==
  [path |-> pa, postId |-> po, sessionId |-> se, duration |-> du, scrollDepth |-> sc,
   userAgent |-> NoHeader, referer |-> NoReferer]

\* The request with body `body` sent by a browser with user agent `ua` from
\* a page reached through `referer`.
Request(body, ua, referer) == [body EXCEPT !.userAgent = ua, !.referer = referer]

Bodies ==
  {Body(None, "P1", "s1", NoNumber, NoNumber)}
  \cup {Body("/post", po, "s1", NoNumber, NoNumber) : po \in {None, "P1", "P2"}}
  \cup {Body("/post", "P1", "s1", 30, 80)}

\* Request bodies of the ring-buffer specification: page views of one post.
RingBodies ==
  {Body("/post", "P1", "s1", NoNumber, NoNumber)}

\* Request bodies of the query specification: views and close-outs of P1 by
\* two sessions, and a view of P2.
QueryBodies ==
  {Body("/post", "P1", se, en[1], en[2]) :
     se \in {"s1", "s2"}, en \in {<<NoNumber, NoNumber>>, <<30, 80>>, <<10, 40>>}}
  \cup {Body("/post", "P2", "s1", NoNumber, NoNumber)}

\* Request bodies of the mixed specification: a view of P1 with and without
\* a session id, and a close-out.
MixedBodies ==
  {Body("/post", "P1", se, NoNumber, NoNumber) : se \in {"s1", None}}
  \cup {Body("/post", "P1", "s1", 30, 80)}

\* Request bodies of the series specification: views of the home page by two
\* sessions.
SeriesBodies ==
  {Body("/", None, se, NoNumber, NoNumber) : se \in {"s1", "s2"}}

\* Request bodies of the real-time specification: views of two pages by two
\* sessions.
PageBodies ==
  SeriesBodies \cup {Body("/about", None, "s1", NoNumber, NoNumber)}

\* Request bodies of the ranking specification: views of the three posts.
RankBodies ==
  {Body("/post", po, "s1", NoNumber, NoNumber) : po \in Posts}

\* User agents: Firefox on Windows, Safari on an iPhone, Safari on an iPad.
DesktopFirefox == {"Mozilla", "Windows", "Firefox"}
PhoneSafari == {"Mozilla", "iPhone", "Mac", "Mobile", "Safari"}
TabletSafari == {"Mozilla", "iPad", "Mac", "Mobile", "Safari"}
\* The user agent of a command-line client: no classifier pattern occurs in it.
Curl == {"curl"}

\* Referers: two pages of a search engine, and a string that is no URL.
Referer(href, hostname) == [href |-> href, parses |-> TRUE, hostname |-> hostname]
SearchA == Referer("https://www.google.com/a", <<"www", "google", "com">>)
SearchB == Referer("https://www.google.com/b", <<"www", "google", "com">>)
BlogPage == Referer("https://blog.example.org/", <<"blog", "example", "org">>)
NotAUrl == [href |-> "not a url", parses |-> FALSE, hostname |-> <<>>]

\* Requests of the breakdown specification: views of the home page from
\* different browsers and referers.
GeoRequests ==
  {Request(Body("/", None, "s1", NoNumber, NoNumber), ua, NoReferer) :
     ua \in {NoHeader, DesktopFirefox, PhoneSafari, TabletSafari, Curl}}
  \cup {Request(Body("/", None, "s1", NoNumber, NoNumber), DesktopFirefox, rf) :
          rf \in {SearchA, SearchB, BlogPage, NotAUrl}}

\* ------------------------------------------------------------------ classifiers
\* toLowerCase() of the words of a user agent.
ToLowerCase ==
  [Mozilla |-> "mozilla", Windows |-> "windows", Firefox |-> "firefox",
   iPhone |-> "iphone", iPad |-> "ipad", Mac |-> "mac", Mobile |-> "mobile",
   Safari |-> "safari", curl |-> "curl"]

\* The alternatives of the two regular expressions of getDeviceType.
TabletPattern == {"tablet", "ipad", "playbook", "silk"}
MobilePattern == {"mobile", "iphone", "ipod", "android", "blackberry", "opera mini", "iemobile"}

getDeviceType(userAgent) ==
  IF userAgent = NoHeader THEN "unknown"
  ELSE LET ua == {ToLowerCase[w] : w \in userAgent}
       IN  IF ua \cap TabletPattern # {} THEN "tablet"
           ELSE IF ua \cap MobilePattern # {} THEN "mobile"
           ELSE "desktop"

getBrowser(userAgent) ==
  IF userAgent = NoHeader THEN "Unknown"
  ELSE IF "Firefox" \in userAgent THEN "Firefox"
  ELSE IF "Chrome" \in userAgent THEN "Chrome"
  ELSE IF "Safari" \in userAgent THEN "Safari"
  ELSE IF "Edge" \in userAgent THEN "Edge"
  ELSE IF "Opera" \in userAgent THEN "Opera"
  ELSE "Other"

getOS(userAgent) ==
  IF userAgent = NoHeader THEN "Unknown"
  ELSE IF "Windows" \in userAgent THEN "Windows"
  ELSE IF "Mac" \in userAgent THEN "macOS"
  ELSE IF "Linux" \in userAgent THEN "Linux"
  ELSE IF "Android" \in userAgent THEN "Android"
  ELSE IF "iOS" \in userAgent \/ "iPhone" \in userAgent THEN "iOS"
  ELSE "Other"

\* hostname.replace("www.", ""): the first label "www" that a dot follows is
\* removed.
StripWww(hostname) ==
  LET at == {i \in 1 .. (Len(hostname) - 1) : hostname[i] = "www"}
  IN  IF at = {} THEN hostname
      ELSE LET i == CHOOSE k \in at : \A l \in at : k <= l
           IN  SubSeq(hostname, 1, i - 1) \o SubSeq(hostname, i + 1, Len(hostname))

\* domain.includes(word) for a word without dots, and for "x.com".
Includes(domain, word) == \E i \in DOMAIN domain : domain[i] = word
IncludesXCom(domain) ==
  \E i \in 1 .. (Len(domain) - 1) : domain[i] = "x" /\ domain[i + 1] = "com"

\* The labels of a domain joined by dots.
RECURSIVE Dotted(_)
Dotted(domain) ==
  IF domain = <<>> THEN ""
  ELSE IF Len(domain) = 1 THEN domain[1]
  ELSE domain[1] \o "." \o Dotted(Tail(domain))

\* The source of a domain: the chain of includes() tests of getReferrerSource.
SourceOfDomain(domain) ==
  IF Includes(domain, "google") THEN "Google"
  ELSE IF Includes(domain, "facebook") THEN "Facebook"
  ELSE IF Includes(domain, "twitter") \/ IncludesXCom(domain) THEN "Twitter/X"
  ELSE IF Includes(domain, "linkedin") THEN "LinkedIn"
  ELSE IF Includes(domain, "reddit") THEN "Reddit"
  ELSE IF Includes(domain, "github") THEN "GitHub"
  ELSE Dotted(domain)

\* The outcome of a call that ends in an uncaught exception.
Threw == "<TypeError>"

\* getReferrerSource without its try / catch: new URL() throws on a string
\* that is no URL.
getReferrerSourceUncaught(referer) ==
  IF referer.href = "" THEN "Direct"
  ELSE IF ~referer.parses THEN Threw
  ELSE SourceOfDomain(StripWww(referer.hostname))

\* getReferrerSource: "Direct" without referer, "Direct" from the catch
\* block when new URL(referer) throws, else the source of the hostname.
getReferrerSource(referer) ==
  IF referer.href = "" THEN "Direct"
  ELSE IF ~referer.parses THEN "Direct"
  ELSE SourceOfDomain(StripWww(referer.hostname))

\* ------------------------------------------------------------------ track: POST /api/analytics/track
\* x || 0 of a numeric body field.
OrZero(x) == IF x = NoNumber THEN 0 ELSE x

\* sessionId || `anon-${Date.now()}`.
SessionOf(body, t) ==
  IF body.sessionId = None THEN "anon-" \o ToString(t) ELSE body.sessionId

\* new PageView({...}): the document built from the request; createdAt is
\* stamped by the schema's timestamps when save() is called.  The handler
\* sets no country.
NewPageView(body, t) ==
  [post |-> body.postId,
   sessionId |-> SessionOf(body, t),
   userAgent |-> body.userAgent,
   referer |-> body.referer,
   path |-> body.path,
   device |-> getDeviceType(body.userAgent),
   browser |-> getBrowser(body.userAgent),
   os |-> getOS(body.userAgent),
   country |-> None,
   duration |-> OrZero(body.duration),
   scrollDepth |-> OrZero(body.scrollDepth),
   createdAt |-> t]

\* Schema validation run by save(): sessionId and path are required.
Validates(doc) == doc.sessionId # None /\ doc.path # None

\* The response the handler sends: 200 {success: true} after both writes,
\* 500 {message: "Failed to track"} from the catch block.
StatusOk == 200
StatusFailed == 500

Finish(c, status) ==
  [slot EXCEPT ![c] = [IdleSlot EXCEPT !.pc = "done", !.body = slot[c].body, !.status = status]]

\* Position, in the PostAnalytics collection, of the first document of post p
\* (0 when there is none): the filter {post: postId}.
FindPost(coll, p) ==
  IF \E i \in DOMAIN coll : coll[i].post = p
  THEN CHOOSE i \in DOMAIN coll : coll[i].post = p /\ \A j \in 1 .. (i - 1) : coll[j].post # p
  ELSE 0

\* totalViews of the document of post p (0 when there is none).
ViewsOf(coll, p) == IF FindPost(coll, p) = 0 THEN 0 ELSE coll[FindPost(coll, p)].totalViews

\* The push without $slice.
PushSliceKeepAll(history, entry) == Append(history, entry)

\* The push with $slice: 30, which keeps the head.
PushSliceKeepFirst(history, entry) == FirstN(Append(history, entry), HistoryCap)

\* $push {$each: [entry], $slice: -30}: append, then keep the last 30.
PushSlice(history, entry) == LastN(Append(history, entry), HistoryCap)

\* The update document applied to one PostAnalytics document, as one atomic
\* write of the storage engine: $inc totalViews and $push viewHistory.
ApplyUpdate(d, entry) ==
  [d EXCEPT !.totalViews = @ + 1, !.viewHistory = PushSlice(@, entry)]

\* The document an upsert inserts: the filter's fields, the schema defaults
\* of the fields the update does not touch, then the update.
UpsertDoc(p, entry) ==
  ApplyUpdate([post |-> p, totalViews |-> 0, uniqueViews |-> 0,
               avgDuration |-> 0, avgScrollDepth |-> 0, viewHistory |-> <<>>], entry)

\* An upsert without the unique index on `post`: a command whose filter
\* matched no document inserts one, whatever was inserted since.
UpsertNoIndex(coll, found, p, entry) ==
  IF found = 0
  THEN Append(coll, UpsertDoc(p, entry))
  ELSE [coll EXCEPT ![FindPost(coll, p)] = ApplyUpdate(@, entry)]

\* A read-modify-write of the whole document instead of $inc / $push.
UpsertReadModifyWrite(coll, found, p, entry) ==
  IF FindPost(coll, p) = 0
  THEN Append(coll, UpsertDoc(p, entry))
  ELSE [coll EXCEPT ![FindPost(coll, p)] =
          [@ EXCEPT !.totalViews = found + 1, !.viewHistory = PushSlice(@, entry)]]

\* findOneAndUpdate({post: p}, update, {upsert: true, new: true}), applied.
\* `found` is the totalViews the filter saw (0: it matched no document); the
\* write does not depend on it.  A matching document is updated in place by
\* one atomic write.  Without one the upsert inserts; `post` is unique, so
\* when another command inserted the post's document after the filter was
\* evaluated, the index rejects the insert and the server retries the
\* command as an update of that document.
FindOneAndUpdate(coll, found, p, entry) ==
  IF FindPost(coll, p) = 0
  THEN Append(coll, UpsertDoc(p, entry))
  ELSE [coll EXCEPT ![FindPost(coll, p)] = ApplyUpdate(@, entry)]

\* The handler up to its first await: read the body, build the PageView and
\* call save(), whose validation rejects before anything is written.
TrackReceive(c, body, maxCalls) ==
  /\ slot[c].pc \in {"idle", "done"}
  /\ \A b \in 1 .. (c - 1) : slot[b].pc \notin {"idle", "done"}
  /\ Len(hist.log) < maxCalls
  /\ LET doc == NewPageView(body, now)
     IN  /\ slot' = [slot EXCEPT ![c] =
                       IF Validates(doc)
                       THEN [IdleSlot EXCEPT !.pc = "save", !.body = body, !.doc = doc]
                       ELSE [IdleSlot EXCEPT !.pc = "done", !.body = body, !.status = StatusFailed]]
         /\ hist' = [hist EXCEPT !.log = Append(@, body)]
  /\ reply' = NoReply
  /\ UNCHANGED <<now, pageViews, postAnalytics, dailyStats>>
  /\ UNCHANGED elsewhere

\* await pageView.save() settles.  On failure the catch block answers 500.
\* On success the PageView is stored; with a postId the handler builds the
\* update (new Date()) and issues findOneAndUpdate,
\* without one it answers 200.
TrackSave(c, fail) ==
  /\ slot[c].pc = "save"
  /\ IF fail
     THEN /\ slot' = Finish(c, StatusFailed)
          /\ hist' = [hist EXCEPT !.failures = @ + 1]
          /\ UNCHANGED pageViews
     ELSE /\ pageViews' = Append(pageViews, slot[c].doc)
          /\ IF slot[c].body.postId # None
             THEN slot' = [slot EXCEPT ![c].pc = "find",
                                ![c].entry = [date |-> now, views |-> 1]]
             ELSE slot' = Finish(c, StatusOk)
          /\ UNCHANGED hist
  /\ reply' = NoReply
  /\ UNCHANGED <<now, postAnalytics, dailyStats>>
  /\ UNCHANGED elsewhere

\* The server evaluates the filter of findOneAndUpdate: it remembers the
\* totalViews of the matching document (0: no document matched).
UpsertFind(c) ==
  /\ slot[c].pc = "find"
  /\ slot' = [slot EXCEPT ![c].pc = "apply",
                       ![c].found = ViewsOf(postAnalytics, slot[c].body.postId)]
  /\ reply' = NoReply
  /\ UNCHANGED <<now, pageViews, postAnalytics, dailyStats, hist>>
  /\ UNCHANGED elsewhere

\* The server applies the update (or the insert of the upsert) and the
\* awaited promise settles: 200 on success, 500 from the catch block.
UpsertApply(c, fail) ==
  /\ slot[c].pc = "apply"
  /\ LET p == slot[c].body.postId
     IN  IF fail
         THEN /\ slot' = Finish(c, StatusFailed)
              /\ hist' = [hist EXCEPT !.failures = @ + 1]
              /\ UNCHANGED postAnalytics
         ELSE /\ postAnalytics' = FindOneAndUpdate(postAnalytics, slot[c].found, p, slot[c].entry)
              /\ slot' = Finish(c, StatusOk)
              /\ hist' = [hist EXCEPT
                            !.ok[p] = @ + 1,
                            !.pushLog[p] = Append(@, slot[c].entry),
                            !.raced = @ \/ slot[c].found # ViewsOf(postAnalytics, p),
                            !.createRaced = @ \/ (slot[c].found = 0 /\ FindPost(postAnalytics, p) # 0)]
  /\ reply' = NoReply
  /\ UNCHANGED <<now, pageViews, dailyStats>>
  /\ UNCHANGED elsewhere

\* A day passes.
Tick ==
  /\ now < MaxNow * TicksPerDay
  /\ now' = now + TicksPerDay
  /\ reply' = NoReply
  /\ UNCHANGED <<pageViews, postAnalytics, dailyStats, slot, hist>>
  /\ UNCHANGED elsewhere

\* d minutes pass.
Elapse(d, maxElapses) ==
  /\ hist.elapses < maxElapses
  /\ now' = now + d
  /\ hist' = [hist EXCEPT !.elapses = @ + 1]
  /\ reply' = NoReply
  /\ UNCHANGED <<pageViews, postAnalytics, dailyStats, slot>>
  /\ UNCHANGED elsewhere

\* ------------------------------------------------------------------ queries over the PageView collection
\* The distinct session ids of a sequence of PageViews ($addToSet, distinct).
SessionsOf(events) == {events[i].sessionId : i \in DOMAIN events}

\* The number of documents of `events` that session `se` issued.
EventsOfSession(events, se) == Cardinality({i \in DOMAIN events : events[i].sessionId = se})

\* The sums behind $avg: "$duration" and $avg: "$scrollDepth".
SumDuration(events) == SumSeq([i \in DOMAIN events |-> events[i].duration])
SumScrollDepth(events) == SumSeq([i \in DOMAIN events |-> events[i].scrollDepth])

\* today.setHours(0, 0, 0, 0): the start of the current day.
StartOfDay(t) == t - (t % TicksPerDay)

\* d.setDate(d.getDate() - n): n days before t.
DaysBefore(t, n) == t - n * TicksPerDay

\* PageView.countDocuments({createdAt: {$gte: from, $lt: to}}).
CountBetween(from, to) ==
  Cardinality({i \in DOMAIN pageViews : pageViews[i].createdAt >= from /\ pageViews[i].createdAt < to})

\* PageView.countDocuments({createdAt: {$gte: from}}).
CountSince(from) ==
  Cardinality({i \in DOMAIN pageViews : pageViews[i].createdAt >= from})

\* GET /overview: yesterdayViews > 0 ? Math.round(((today - yesterday) / yesterday) * 100) : 100.
ViewsGrowth(todayViews, yesterdayViews) ==
  IF yesterdayViews > 0
  THEN MathRound((todayViews - yesterdayViews) * 100, yesterdayViews)
  ELSE 100

\* GET /overview: the view counters of the response.
Overview ==
  LET today == StartOfDay(now)
      yesterday == DaysBefore(today, 1)
      todayViews == CountSince(today)
      yesterdayViews == CountBetween(yesterday, today)
      InToday(e) == e.createdAt >= today
  IN  [kind |-> "overview",
       totalViews |-> Len(pageViews),
       todayViews |-> todayViews,
       uniqueVisitors |-> Cardinality(SessionsOf(SelectSeq(pageViews, InToday))),
       viewsGrowth |-> ViewsGrowth(todayViews, yesterdayViews),
       yesterdayViews |-> yesterdayViews,
       weekViews |-> CountSince(DaysBefore(today, 7)),
       monthViews |-> CountSince(DaysBefore(today, 30))]

\* GET /engagement: the documents the aggregation's $match lets through.
EngagementMatch ==
  LET lastMonth == DaysBefore(now, EngagementDays)
      Keep(e) == e.createdAt >= lastMonth /\ e.duration > 0
  IN  SelectSeq(pageViews, Keep)

\* GET /engagement: bounce rate over the matched documents, counting the
\* sessions that occur once among them.
BounceRate(events) ==
  LET totalSessions == SessionsOf(events)
      singlePageCount == Cardinality({se \in totalSessions : EventsOfSession(events, se) = 1})
  IN  IF Cardinality(totalSessions) > 0
      THEN MathRound(singlePageCount * 100, Cardinality(totalSessions))
      ELSE 0

\* GET /engagement: the metrics of the response (the likes and comments
\* series come from the post and comment collections).
Engagement ==
  LET events == EngagementMatch
  IN  [kind |-> "engagement",
       avgDuration |-> IF events = <<>> THEN 0
                       ELSE MathRound(SumDuration(events), Len(events)),
       avgScrollDepth |-> IF events = <<>> THEN 0
                          ELSE MathRound(SumScrollDepth(events), Len(events)),
       bounceRate |-> BounceRate(events)]

\* The start of a period of GET /popular-posts: 7d, all, otherwise 30 days.
PopularStart(period) ==
  IF period = "7d" THEN DaysBefore(now, 7)
  ELSE IF period = "all" THEN 0
  ELSE DaysBefore(now, 30)

Periods == {"7d", "30d", "all"}

\* GET /popular-posts: $match, $group by post and the first $project.
PopularGroups(period) ==
  LET start == PopularStart(period)
      Keep(e) == e.post # None /\ e.createdAt >= start
      events == SelectSeq(pageViews, Keep)
      OfPost(po) == LET IsPost(e) == e.post = po IN SelectSeq(events, IsPost)
  IN  {[post |-> po,
        views |-> Len(OfPost(po)),
        uniqueViews |-> Cardinality(SessionsOf(OfPost(po))),
        avgDuration |-> MongoRound(SumDuration(OfPost(po)), Len(OfPost(po)))] :
         po \in {events[i].post : i \in DOMAIN events}}

\* The orders $sort {views: -1} may produce: descending by views, groups
\* with equal views in any order.
SortedByViews(groups) ==
  {r \in [1 .. Cardinality(groups) -> groups] :
     /\ \A i, j \in DOMAIN r : i # j => r[i] # r[j]
     /\ \A i, j \in DOMAIN r : i < j => r[i].views >= r[j].views}

\* $lookup posts / $unwind, $lookup users / $unwind: a group whose post or
\* author does not resolve is dropped.
Resolves(g) == g.post \in Posts /\ PostAuthor[g.post] \in Users

\* GET /popular-posts: the responses the pipeline may return.
PopularPosts(period, limit) ==
  {SelectSeq(FirstN(r, limit), Resolves) : r \in SortedByViews(PopularGroups(period))}

\* The orders in which a pipeline without $sort may return its groups.
Orderings(groups) ==
  {r \in [1 .. Cardinality(groups) -> groups] : \A i, j \in DOMAIN r : i # j => r[i] # r[j]}

\* The orders $sort {count: -1}, {visitors: -1} and {totalViews: -1} may
\* produce: descending, groups with equal keys in any order.
SortedByCount(groups) ==
  {r \in Orderings(groups) : \A i, j \in DOMAIN r : i < j => r[i].count >= r[j].count}

SortedByVisitors(groups) ==
  {r \in Orderings(groups) : \A i, j \in DOMAIN r : i < j => r[i].visitors >= r[j].visitors}

SortedByTotalViews(groups) ==
  {r \in Orderings(groups) : \A i, j \in DOMAIN r : i < j => r[i].totalViews >= r[j].totalViews}

\* GET /realtime with $gt in place of $gte.
RealtimeMatchAfter ==
  LET fiveMinutesAgo == now - RealtimeMinutes
      Keep(e) == e.createdAt > fiveMinutesAgo
  IN  SelectSeq(pageViews, Keep)

\* GET /realtime: the documents both aggregations match, those created at
\* or after fiveMinutesAgo = Date.now() - 5 * 60 * 1000.
RealtimeMatch ==
  LET fiveMinutesAgo == now - RealtimeMinutes
      Keep(e) == e.createdAt >= fiveMinutesAgo
  IN  SelectSeq(pageViews, Keep)

\* The distinct paths of a sequence of PageViews ($addToSet: "$path").
PathsOf(events) == {events[i].path : i \in DOMAIN events}

\* GET /realtime: the second aggregation, the ten pages with most visitors.
TopPages ==
  LET events == RealtimeMatch
      OfPath(pa) == LET IsPath(e) == e.path = pa IN SelectSeq(events, IsPath)
      groups == {[path |-> pa, visitors |-> Cardinality(SessionsOf(OfPath(pa)))] :
                   pa \in PathsOf(events)}
  IN  {FirstN(r, TopPagesLimit) : r \in SortedByVisitors(groups)}

\* GET /realtime: the responses the handler may send.  The first
\* aggregation yields one group, or none when no document matches.
Realtime ==
  LET events == RealtimeMatch
  IN  {[kind |-> "realtime",
        activeVisitors |-> IF events = <<>> THEN 0 ELSE Cardinality(SessionsOf(events)),
        pageViews |-> IF events = <<>> THEN 0 ELSE Len(events),
        activePages |-> IF events = <<>> THEN 0 ELSE Cardinality(PathsOf(events)),
        topPages |-> tp] : tp \in TopPages}

\* d.setFullYear(d.getFullYear() - n): n years before t.
YearsBefore(t, n) == t - n * MonthsPerYear * DaysPerMonth * TicksPerDay

\* $dateToString of a timestamp: %Y-%m-%d is the triple of year, month and
\* day of month, %Y-%m the pair of year and month, counted from the epoch.
DateToString(format, t) ==
  LET day == t \div TicksPerDay
      month == day \div DaysPerMonth
      date == <<1970 + (month \div MonthsPerYear), 1 + (month % MonthsPerYear), 1 + (day % DaysPerMonth)>>
  IN  IF format = "%Y-%m" THEN SubSeq(date, 1, 2) ELSE date

\* The order of two date strings of one format: the strings are zero padded,
\* so their order is the order of their numbers, the leftmost deciding.
RECURSIVE DateLess(_, _)
DateLess(a, b) ==
  /\ a # <<>>
  /\ \/ Head(a) < Head(b)
     \/ Head(a) = Head(b) /\ DateLess(Tail(a), Tail(b))

\* $sort {date: -1}.
SortByDateDescending(groups) ==
  CHOOSE r \in Orderings(groups) : \A i, j \in DOMAIN r : i < j => DateLess(r[j].date, r[i].date)

\* $sort {date: 1} of groups with distinct dates.
SortByDate(groups) ==
  CHOOSE r \in Orderings(groups) : \A i, j \in DOMAIN r : i < j => DateLess(r[i].date, r[j].date)

\* The period switch of GET /views-over-time: 7d, 30d, 90d and 1y; any other
\* value is handled as 30d.
SeriesStart(period) ==
  IF period = "7d" THEN DaysBefore(now, 7)
  ELSE IF period = "30d" THEN DaysBefore(now, 30)
  ELSE IF period = "90d" THEN DaysBefore(now, 90)
  ELSE IF period = "1y" THEN YearsBefore(now, 1)
  ELSE DaysBefore(now, 30)

SeriesFormat(period) == IF period = "1y" THEN "%Y-%m" ELSE "%Y-%m-%d"

\* The values of the period parameter the dashboard and the API offer.
AllPeriods == {"7d", "30d", "90d", "1y", "all"}

\* The buckets of a sequence of PageViews: $group by the formatted createdAt
\* with $sum: 1 and $addToSet: "$sessionId", then $project.
DateGroups(events, format) ==
  LET OfDate(d) == LET IsDate(e) == DateToString(format, e.createdAt) = d
                   IN  SelectSeq(events, IsDate)
  IN  {[date |-> d,
        views |-> Len(OfDate(d)),
        uniqueVisitors |-> Cardinality(SessionsOf(OfDate(d)))] :
         d \in {DateToString(format, events[i].createdAt) : i \in DOMAIN events}}

\* GET /views-over-time: the response.
ViewsOverTime(period) ==
  LET startDate == SeriesStart(period)
      Keep(e) == e.createdAt >= startDate
  IN  [kind |-> "views-over-time",
       period |-> period,
       points |-> SortByDate(DateGroups(SelectSeq(pageViews, Keep), SeriesFormat(period)))]

\* GET /popular-authors: $match, $lookup posts / $unwind (a view of a post
\* that does not resolve is dropped), $group by the post's author, $project.
AuthorGroups(period) ==
  LET start == PopularStart(period)
      Keep(e) == e.post # None /\ e.createdAt >= start /\ e.post \in Posts
      events == SelectSeq(pageViews, Keep)
      OfAuthor(u) == LET IsAuthor(e) == PostAuthor[e.post] = u IN SelectSeq(events, IsAuthor)
  IN  {[author |-> u,
        totalViews |-> Len(OfAuthor(u)),
        uniqueViews |-> Cardinality(SessionsOf(OfAuthor(u))),
        postCount |-> Cardinality({OfAuthor(u)[i].post : i \in DOMAIN OfAuthor(u)})] :
         u \in {PostAuthor[events[i].post] : i \in DOMAIN events}}

\* $lookup users / $unwind: a group whose author does not resolve is dropped.
AuthorResolves(g) == g.author \in Users

\* GET /popular-authors: the responses the pipeline may return.
PopularAuthors(period, limit) ==
  {SelectSeq(FirstN(r, limit), AuthorResolves) : r \in SortedByTotalViews(AuthorGroups(period))}

\* The period switch of GET /geographic: 7d; any other value is handled as 30d.
GeoStart(period) ==
  IF period = "7d" THEN DaysBefore(now, 7) ELSE DaysBefore(now, 30)

\* GET /geographic: the documents the four aggregations match.
GeoMatch(period) ==
  LET startDate == GeoStart(period)
      Keep(e) == e.createdAt >= startDate
  IN  SelectSeq(pageViews, Keep)

\* $ifNull: ["$country", "Unknown"].
CountryOf(e) == IF e.country = None THEN "Unknown" ELSE e.country

\* GET /geographic: the groups of the four aggregations.  The referrers are
\* grouped by the stored referer string.
CountryGroups(events) ==
  LET OfCountry(k) == LET Is(e) == CountryOf(e) = k IN SelectSeq(events, Is)
  IN  {[country |-> k,
        views |-> Len(OfCountry(k)),
        uniqueVisitors |-> Cardinality(SessionsOf(OfCountry(k)))] :
         k \in {CountryOf(events[i]) : i \in DOMAIN events}}

DeviceGroups(events) ==
  {[device |-> k, count |-> Cardinality({i \in DOMAIN events : events[i].device = k})] :
     k \in {events[i].device : i \in DOMAIN events}}

BrowserGroups(events) ==
  {[browser |-> k, count |-> Cardinality({i \in DOMAIN events : events[i].browser = k})] :
     k \in {events[i].browser : i \in DOMAIN events}}

ReferrerGroups(events) ==
  {[source |-> k, count |-> Cardinality({i \in DOMAIN events : events[i].referer = k})] :
     k \in {events[i].referer : i \in DOMAIN events}}

\* referrerData.map(r => ({source: getReferrerSource(r._id), count: r.count})).
ReferrerSources(referrerData) ==
  [i \in DOMAIN referrerData |->
     [source |-> getReferrerSource(referrerData[i].source), count |-> referrerData[i].count]]

\* GET /geographic: the responses the handler may send.  The device
\* aggregation has no $sort stage.
Geographic(period) ==
  LET events == GeoMatch(period)
  IN  {[kind |-> "geographic",
        period |-> period,
        countries |-> FirstN(countryData, CountryLimit),
        devices |-> deviceData,
        browsers |-> browserData,
        referrers |-> ReferrerSources(FirstN(referrerData, ReferrerLimit))] :
         countryData \in SortedByViews(CountryGroups(events)),
         deviceData \in Orderings(DeviceGroups(events)),
         browserData \in SortedByCount(BrowserGroups(events)),
         referrerData \in SortedByCount(ReferrerGroups(events))}

\* GET /my-stats of user u: the views of u's posts, in total, per day of the
\* last 30 days, and of the five most viewed posts.
MyStats(u) ==
  LET postIds == {po \in Posts : PostAuthor[po] = u}
      lastMonth == DaysBefore(now, 30)
      Mine(e) == e.post \in postIds
      Recent(e) == e.post \in postIds /\ e.createdAt >= lastMonth
      events == SelectSeq(pageViews, Mine)
      days == DateGroups(SelectSeq(pageViews, Recent), "%Y-%m-%d")
      groups == {[post |-> po, views |-> Cardinality({i \in DOMAIN events : events[i].post = po})] :
                   po \in {events[i].post : i \in DOMAIN events}}
      InPosts(g) == g.post \in Posts
  IN  IF postIds = {}
      THEN {[kind |-> "my-stats", totalViews |-> 0, viewsOverTime |-> <<>>, topPosts |-> <<>>]}
      ELSE {[kind |-> "my-stats",
             totalViews |-> Len(events),
             viewsOverTime |-> [i \in DOMAIN SortByDate(days) |->
                                  [date |-> SortByDate(days)[i].date, views |-> SortByDate(days)[i].views]],
             topPosts |-> SelectSeq(FirstN(r, MyTopPostsLimit), InPosts)] :
              r \in SortedByViews(groups)}

\* ------------------------------------------------------------------ query handlers
\* A query that records its own request as a page view.
AnswerAndRecord(r) ==
  /\ reply' = r
  /\ pageViews' = Append(pageViews, [NoDoc EXCEPT !.path = r.kind, !.createdAt = now])
  /\ UNCHANGED <<now, postAnalytics, dailyStats, slot, hist>>
  /\ UNCHANGED elsewhere

\* res.json(r) of a query handler: the handlers only read (aggregate,
\* countDocuments, find).
Answer(r) ==
  /\ reply' = r
  /\ UNCHANGED <<now, pageViews, postAnalytics, dailyStats, slot, hist>>
  /\ UNCHANGED elsewhere

GetOverview == Answer(Overview)

GetEngagement == Answer(Engagement)

GetPopularPosts(period, limit) ==
  \E r \in PopularPosts(period, limit) : Answer([kind |-> "popular-posts", posts |-> r])

GetPopularAuthors(period, limit) ==
  \E r \in PopularAuthors(period, limit) : Answer([kind |-> "popular-authors", authors |-> r])

GetViewsOverTime(period) == Answer(ViewsOverTime(period))

GetGeographic(period) == \E r \in Geographic(period) : Answer(r)

GetRealtime == \E r \in Realtime : Answer(r)

GetMyStats(u) == \E r \in MyStats(u) : Answer(r)

\* ------------------------------------------------------------------ client: AnalyticsTracker
\* location.pathname, split at its slashes.
SegmentsOf ==
  [home  |-> <<>>,
   posts |-> <<"posts">>,
   first |-> <<"post", "first-post">>]
Pathname == [home |-> "/", posts |-> "/posts", first |-> "/post/first-post"]
Locations == DOMAIN SegmentsOf

\* pathname.match(/\/post\/([^/]+)/): the segment after the first "post"
\* segment that has a non-empty successor; null without a match.
PostMatch(location) ==
  LET segs == SegmentsOf[location]
      hits == {i \in 1 .. (Len(segs) - 1) : segs[i] = "post"}
  IN  IF hits = {} THEN None
      ELSE segs[(CHOOSE i \in hits : \A j \in hits : i <= j) + 1]

\* getSessionId(): generated once per tab and kept in sessionStorage.
TabSession == "session_0_tab"

\* window.scrollY as a percentage of the scrollable height.
ScrollPercents == {80}

\* The clock of the browser advances in these steps (ms).
TrackerSteps == {500, 1000}

\* The component has mounted on the home page at time 0 and its effect
\* has run.
NewTracker ==
  [clock       |-> 0,        \* Date.now() of the browser
   mounted     |-> TRUE,     \* the page is loaded
   location    |-> "home",   \* location.pathname of the active effect
   startTime   |-> 0,        \* startTime.current
   scrollDepth |-> 0,        \* scrollDepth.current
   timer       |-> "pending",\* trackTimeout: pending, fired, none
   sent        |-> <<>>,     \* the calls of analyticsService.track, in order
   view        |-> 1,        \* history: the number of the page view shown
   left        |-> <<>>,     \* history: the runs of trackEngagement()
   unloads     |-> 0]        \* history: beforeunload events so far

\* The data of the first call of a page view.
PageViewCall(t) ==
  [path |-> Pathname[t.location], postSlug |-> PostMatch(t.location),
   sessionId |-> TabSession, duration |-> NoNumber, scrollDepth |-> NoNumber]

\* The data of the close-out after `duration` seconds.
EngagementCall(t, duration) ==
  [path |-> Pathname[t.location], postSlug |-> PostMatch(t.location),
   sessionId |-> TabSession, duration |-> duration, scrollDepth |-> t.scrollDepth]

\* analyticsService.track(data): POST /analytics/track with data as the JSON
\* body; the route reads path, postId, duration, scrollDepth and sessionId.
ReqBody(data) ==
  Body(data.path,
       IF "postId" \in DOMAIN data THEN data.postId ELSE None,
       data.sessionId, data.duration, data.scrollDepth)

ReportsAnyStay(duration) == duration >= 0

\* if (duration > 5)
Reports(duration) == duration > MinDuration

\* trackEngagement(): the stay so far, rounded to seconds, is sent when it
\* is long enough.
TrackEngagement(t) ==
  LET duration == MathRound(t.clock - t.startTime, MsPerSecond)
  IN  [t EXCEPT !.sent = IF Reports(duration)
                         THEN Append(@, [data |-> EngagementCall(t, duration), view |-> t.view])
                         ELSE @]

\* History of a run of trackEngagement(): the page view, the stay in ms,
\* whether a call was sent and whether the visitor is gone from the page.
Leave(t, gone) ==
  [view |-> t.view, stay |-> t.clock - t.startTime,
   reported |-> Len(TrackEngagement(t).sent) > Len(t.sent), gone |-> gone]

\* The timer of the page-view call is due.
TimerDue(t) == t.mounted /\ t.timer = "pending" /\ t.clock >= t.startTime + TrackDelay

\* location.pathname changes: the cleanup of the previous effect clears the
\* timer, removes the listener and calls trackEngagement(); then the effect
\* runs for the new page.
Navigate(location) ==
  /\ tracker.mounted
  /\ tracker.view < MaxPageViews
  /\ location # tracker.location
  /\ LET cleaned == [TrackEngagement(tracker) EXCEPT !.left = Append(@, Leave(tracker, TRUE))]
     IN  tracker' = [cleaned EXCEPT !.location = location,
                                    !.startTime = tracker.clock,
                                    !.scrollDepth = 0,
                                    !.timer = "pending",
                                    !.view = @ + 1]
  /\ UNCHANGED <<analytics, blog, apiCache, userRateLimits>>

\* The callback of setTimeout runs when the timer is due.
TimerFires ==
  /\ TimerDue(tracker)
  /\ tracker' = [tracker EXCEPT
                   !.timer = "fired",
                   !.sent = Append(@, [data |-> PageViewCall(tracker), view |-> tracker.view])]
  /\ UNCHANGED <<analytics, blog, apiCache, userRateLimits>>

\* handleScroll.
Scroll(scrollPercent) ==
  /\ tracker.mounted
  /\ scrollPercent > tracker.scrollDepth
  /\ tracker' = [tracker EXCEPT !.scrollDepth = scrollPercent]
  /\ UNCHANGED <<analytics, blog, apiCache, userRateLimits>>

\* beforeunload: handleBeforeUnload calls trackEngagement().  The page is
\* then unloaded (no cleanup runs, the timer dies with the page) or the
\* visitor cancels and stays.
BeforeUnload(unloaded) ==
  /\ tracker.mounted
  /\ tracker.unloads < MaxBeforeUnloads
  /\ LET t == TrackEngagement(tracker)
     IN  tracker' = [t EXCEPT !.left = Append(@, Leave(tracker, unloaded)),
                              !.unloads = @ + 1,
                              !.mounted = ~unloaded,
                              !.timer = IF unloaded THEN "none" ELSE @]
  /\ UNCHANGED <<analytics, blog, apiCache, userRateLimits>>

\* Time passes in the browser; a due timer runs before more time passes.
TrackerTick(d) ==
  /\ tracker.mounted
  /\ tracker.clock + d <= MaxTrackerClock
  /\ ~TimerDue(tracker)
  /\ tracker' = [tracker EXCEPT !.clock = @ + d]
  /\ UNCHANGED <<analytics, blog, apiCache, userRateLimits>>

\* ------------------------------------------------------------------ posts: GET /api/posts/:id, /slug/:slug
Readers == 1 .. MaxReaders
Routes == {"id", "slug"}

IdleReader == [pc |-> "idle", route |-> "id", views |-> 0]

\* A published post nobody has read, and no request in progress.
NewBlog ==
  [views   |-> 0,                             \* Post.views in the database
   reader  |-> [r \in Readers |-> IdleReader], \* the requests and their documents
   started |-> 0,                             \* history: reads started
   served  |-> 0]                             \* history: reads answered

\* this.views += 1 on the loaded document.
incrementViews(views) == views + 1

\* await Post.findById(...) or await Post.findOne({ slug }): the request
\* loads the document with the views the database holds now.
ReadFind(r, route) ==
  /\ blog.reader[r].pc = "idle"
  /\ blog.started < MaxReads
  /\ blog' = [blog EXCEPT !.reader[r] = [pc |-> "save", route |-> route, views |-> blog.views],
                          !.started = @ + 1]
  /\ UNCHANGED <<analytics, tracker, apiCache, userRateLimits>>

\* await post.incrementViews(): save() writes the modified path with
\* $set: { views }, and the request answers.
ReadSave(r) ==
  /\ blog.reader[r].pc = "save"
  /\ blog' = [blog EXCEPT !.views = incrementViews(blog.reader[r].views),
                          !.reader[r] = IdleReader,
                          !.served = @ + 1]
  /\ UNCHANGED <<analytics, tracker, apiCache, userRateLimits>>

\* ------------------------------------------------------------------ client: ApiCache
\* The cache keys the client asks for (makeCacheKey) and the ttl arguments
\* of cachedGet, in minutes.
CacheKeys == {"/posts", "/posts/tags", "/categories"}
Ttls == {1, 2}

\* new ApiCache(...): an empty Map.  A Map iterates in insertion order.
NewCache ==
  [clock    |-> 0,        \* Date.now(), in minutes
   entries  |-> <<>>,     \* this.cache: [key, expiresAt] in insertion order
   fetching |-> <<>>,     \* API.get requests in flight, with their ttl
   calls    |-> 0,        \* history: calls of cachedGet
   used     |-> <<>>,     \* history: the cached keys, least recently used first
   lastSet  |-> [key |-> None, before |-> {}, after |-> {}, lru |-> None]]
                          \* history: the last set(), the keys before and after

KeysOf(entries) == {entries[i].key : i \in DOMAIN entries}

Without(seq, key) == SelectSeq(seq, LAMBDA e : e # key)

\* this.cache.delete(key)
CacheDelete(entries, key) == SelectSeq(entries, LAMBDA e : e.key # key)

\* has(key) and get(key) find an item that has not expired.
Fresh(entries, key, t) ==
  \E i \in DOMAIN entries : entries[i].key = key /\ ~(t > entries[i].expiresAt)

\* The Map after has(key) or get(key): an expired item of the key is deleted.
AfterLookup(entries, key, t) ==
  IF Fresh(entries, key, t) THEN entries ELSE CacheDelete(entries, key)

\* this.cache.set(key, item): a new key goes to the end, a present key keeps
\* its place.
MapSet(entries, item) ==
  IF item.key \in KeysOf(entries)
  THEN [i \in DOMAIN entries |-> IF entries[i].key = item.key THEN item ELSE entries[i]]
  ELSE Append(entries, item)

\* set(key, data, ttl): a full Map first loses the first key of its
\* iteration order.
CacheSet(entries, key, ttl, t) ==
  LET kept == IF Len(entries) >= maxEntries THEN Tail(entries) ELSE entries
  IN  MapSet(kept, [key |-> key, expiresAt |-> t + ttl])

\* cachedGet up to its await: a fresh entry is answered from the cache,
\* otherwise the request goes out.
CachedGet(key, ttl) ==
  /\ apiCache.calls < MaxCacheCalls
  /\ IF Fresh(apiCache.entries, key, apiCache.clock)
     THEN apiCache' = [apiCache EXCEPT !.calls = @ + 1,
                                       !.used = Append(Without(@, key), key)]
     ELSE apiCache' = [apiCache EXCEPT !.calls = @ + 1,
                                       !.entries = AfterLookup(@, key, apiCache.clock),
                                       !.used = Without(@, key),
                                       !.fetching = Append(@, [key |-> key, ttl |-> ttl])]
  /\ UNCHANGED <<analytics, tracker, blog, userRateLimits>>

\* The response of request i arrives: apiCache.set(cacheKey, response.data, ttl).
FetchReturns(i) ==
  /\ i \in DOMAIN apiCache.fetching
  /\ LET f      == apiCache.fetching[i]
         before == apiCache.entries
         after  == CacheSet(before, f.key, f.ttl, apiCache.clock)
     IN  apiCache' = [apiCache EXCEPT
                        !.entries = after,
                        !.fetching = [j \in 1 .. (Len(@) - 1) |-> IF j < i THEN @[j] ELSE @[j + 1]],
                        !.used = Append(SelectSeq(@, LAMBDA k : k \in KeysOf(after) /\ k # f.key), f.key),
                        !.lastSet = [key |-> f.key, before |-> KeysOf(before), after |-> KeysOf(after),
                                     lru |-> IF apiCache.used = <<>> THEN None ELSE Head(apiCache.used)]]
  /\ UNCHANGED <<analytics, tracker, blog, userRateLimits>>

\* A minute passes in the browser.
CacheTick ==
  /\ apiCache.clock < MaxCacheClock
  /\ apiCache' = [apiCache EXCEPT !.clock = @ + 1]
  /\ UNCHANGED <<analytics, tracker, blog, userRateLimits>>

\* ------------------------------------------------------------------ server: perUserRateLimit
\* `${identifier}:${req.method}:${req.baseUrl}`
LimitKeys == {"u1:POST:/api/posts", "10.0.0.1:GET:/api/posts"}

\* The clock of the server advances in these steps (ms).
LimiterSteps == {30000}

NoRecord == [present |-> FALSE, count |-> 0, resetAt |-> 0]

\* { count: 0, resetAt: now + windowMs }
NewRecord(t) == [present |-> TRUE, count |-> 0, resetAt |-> t + windowMs]

\* new Map(): no record.
NoRateLimits ==
  [clock    |-> 0,                               \* Date.now()
   records  |-> [key \in LimitKeys |-> NoRecord],  \* the Map
   calls    |-> 0,                               \* history: requests so far
   passedAt |-> [key \in LimitKeys |-> <<>>],      \* history: times of the requests let through
   windows  |-> [key \in LimitKeys |-> <<>>],      \* history: the windows opened by a creation or reset
   last     |-> [key |-> None, earlier |-> 0, status |-> NoNumber],
                                                 \* history: the last request, the requests let through
                                                 \* earlier in its window, and its answer
   swept    |-> 0,                               \* history: records the sweep removed
   sweptOpen |-> FALSE]                          \* history: the sweep removed a record with an open window

\* The requests of `times` that fall into the window w.
InWindowOf(times, w) == {j \in DOMAIN times : w.from <= times[j] /\ times[j] <= w.to}

StaleSinceCreation(record, t) == t > record.resetAt - SweepSlack

\* if (now > record.resetAt + 60000) of the sweep.
Stale(record, t) == t > record.resetAt + SweepSlack

\* The middleware, which runs without an await: find or create the record,
\* reset it after its window, count the request and answer 429 or call next().
RateLimit(key) ==
  /\ userRateLimits.calls < MaxLimitCalls
  /\ LET t       == userRateLimits.clock
         found   == userRateLimits.records[key]
         record  == IF found.present THEN found ELSE NewRecord(t)
         current == IF t > record.resetAt THEN NewRecord(t) ELSE record
         counted == [current EXCEPT !.count = @ + 1]
         opened  == ~found.present \/ t > record.resetAt
         windows == IF opened
                    THEN Append(userRateLimits.windows[key], [from |-> t, to |-> counted.resetAt])
                    ELSE userRateLimits.windows[key]
         earlier == Cardinality(InWindowOf(userRateLimits.passedAt[key], windows[Len(windows)]))
         limited == counted.count > maxRequests
     IN  userRateLimits' = [userRateLimits EXCEPT
                              !.records[key] = counted,
                              !.calls = @ + 1,
                              !.windows[key] = windows,
                              !.passedAt[key] = IF limited THEN @ ELSE Append(@, t),
                              !.last = [key |-> key, earlier |-> earlier,
                                        status |-> IF limited THEN StatusTooMany ELSE NoNumber]]
  /\ UNCHANGED <<analytics, tracker, blog, apiCache>>

\* The callback of setInterval: every stale record is deleted.
Sweep ==
  /\ LET t     == userRateLimits.clock
         stale == {key \in LimitKeys : userRateLimits.records[key].present
                                        /\ Stale(userRateLimits.records[key], t)}
     IN  userRateLimits' = [userRateLimits EXCEPT
                              !.records = [key \in LimitKeys |-> IF key \in stale THEN NoRecord ELSE @[key]],
                              !.swept = @ + Cardinality(stale),
                              !.sweptOpen = @ \/ \E key \in stale : ~(t > userRateLimits.records[key].resetAt)]
  /\ UNCHANGED <<analytics, tracker, blog, apiCache>>

\* Time passes on the server.
LimiterTick(d) ==
  /\ userRateLimits.clock + d <= MaxLimiterClock
  /\ userRateLimits' = [userRateLimits EXCEPT !.clock = @ + d]
  /\ UNCHANGED <<analytics, tracker, blog, apiCache>>

\* ------------------------------------------------------------------ initial state outside the analytics routes
InitElsewhere ==
  /\ tracker = NewTracker
  /\ blog = NewBlog
  /\ apiCache = NewCache
  /\ userRateLimits = NoRateLimits

\* ------------------------------------------------------------------ specifications
Init ==
  /\ now = 0
  /\ pageViews = <<>>
  /\ postAnalytics = <<>>
  /\ dailyStats = <<>>
  /\ slot = [c \in Slots |-> IdleSlot]
  /\ hist = NoHist
  /\ reply = NoReply
  /\ InitElsewhere

\* The main specification: concurrent track requests with any body, storage
\* failures and the clock.
Next ==
  \/ \E c \in Slots, body \in Bodies : TrackReceive(c, body, MaxRequests)
  \/ \E c \in Slots, fail \in BOOLEAN : TrackSave(c, fail)
  \/ \E c \in Slots : UpsertFind(c)
  \/ \E c \in Slots, fail \in BOOLEAN : UpsertApply(c, fail)
  \/ Tick

Spec == Init /\ [][Next]_vars

\* The ring-buffer specification: concurrent page views of a post whose
\* viewHistory is close to its capacity.  It starts in the state the server
\* is in after RingPrefill page views of P1 were handled one after the other
\* at time 0.
RECURSIVE AnalyticsAfterViews(_)
AnalyticsAfterViews(n) ==
  IF n = 0 THEN <<>>
  ELSE LET before == AnalyticsAfterViews(n - 1)
       IN  FindOneAndUpdate(before, ViewsOf(before, "P1"), "P1", [date |-> 0, views |-> 1])

InitRing ==
  /\ now = 0
  /\ pageViews = [i \in 1 .. RingPrefill |->
                    NewPageView(Body("/post", "P1", "s1", NoNumber, NoNumber), 0)]
  /\ postAnalytics = AnalyticsAfterViews(RingPrefill)
  /\ dailyStats = <<>>
  /\ slot = [c \in Slots |-> IdleSlot]
  /\ hist = [NoHist EXCEPT !.log = [i \in 1 .. RingPrefill |->
                                      Body("/post", "P1", "s1", NoNumber, NoNumber)],
                           !.ok["P1"] = RingPrefill,
                           !.pushLog["P1"] = [i \in 1 .. RingPrefill |-> [date |-> 0, views |-> 1]]]
  /\ reply = NoReply
  /\ InitElsewhere

NextRing ==
  \/ \E c \in Slots, body \in RingBodies : TrackReceive(c, body, RingPrefill + MaxRingCalls)
  \/ \E c \in Slots : TrackSave(c, FALSE)
  \/ \E c \in Slots : UpsertFind(c)
  \/ \E c \in Slots : UpsertApply(c, FALSE)
  \/ Tick

SpecRing == InitRing /\ [][NextRing]_vars

\* The query specification: track requests handled one after the other,
\* the clock, and the admin queries answered in between.
NextQuery ==
  \/ \E body \in QueryBodies : TrackReceive(1, body, MaxQueryCalls)
  \/ TrackSave(1, FALSE)
  \/ UpsertFind(1)
  \/ UpsertApply(1, FALSE)
  \/ Tick
  \/ GetOverview
  \/ GetEngagement
  \/ \E period \in Periods : GetPopularPosts(period, DefaultLimit)

SpecQuery == Init /\ [][NextQuery]_vars

\* The values of the limit parameter: one entry, and the default.
Limits == {1, DefaultLimit}

\* The mixed specification: concurrent track requests, with and without a
\* session id, and every admin query answered between their steps.
NextMixed ==
  \/ \E c \in Slots, body \in MixedBodies : TrackReceive(c, body, MaxMixedCalls)
  \/ \E c \in Slots : TrackSave(c, FALSE)
  \/ \E c \in Slots : UpsertFind(c)
  \/ \E c \in Slots : UpsertApply(c, FALSE)
  \/ GetOverview
  \/ GetEngagement
  \/ GetViewsOverTime("30d")
  \/ GetPopularPosts("30d", DefaultLimit)
  \/ GetPopularAuthors("30d", DefaultLimit)
  \/ GetGeographic("30d")
  \/ GetRealtime
  \/ \E u \in Users : GetMyStats(u)

SpecMixed == Init /\ [][NextMixed]_vars

\* The clock steps of the real-time specification, in minutes.
RealtimeSteps == {1, 2, 4}

\* The real-time specification: page views handled one after the other,
\* minutes passing, and the real-time query.
NextRealtime ==
  \/ \E body \in PageBodies : TrackReceive(1, body, MaxRealtimeCalls)
  \/ TrackSave(1, FALSE)
  \/ \E d \in RealtimeSteps : Elapse(d, MaxRealtimeElapses)
  \/ GetRealtime

SpecRealtime == Init /\ [][NextRealtime]_vars

\* The clock steps of the series specification: a day, 7 days, 30 days.
SeriesSteps == {d * TicksPerDay : d \in {1, 7, 30}}

\* The series specification: page views handled one after the other, days
\* passing, and the views-over-time query for every period.
NextSeries ==
  \/ \E body \in SeriesBodies : TrackReceive(1, body, MaxSeriesCalls)
  \/ TrackSave(1, FALSE)
  \/ \E d \in SeriesSteps : Elapse(d, MaxSeriesElapses)
  \/ \E period \in AllPeriods : GetViewsOverTime(period)

SpecSeries == Init /\ [][NextSeries]_vars

\* The ranking specification: views of the three posts handled one after the
\* other, and the two ranking queries.
NextRank ==
  \/ \E body \in RankBodies : TrackReceive(1, body, MaxRankCalls)
  \/ TrackSave(1, FALSE)
  \/ UpsertFind(1)
  \/ UpsertApply(1, FALSE)
  \/ \E limit \in Limits : GetPopularPosts("all", limit)
  \/ \E limit \in Limits : GetPopularAuthors("all", limit)

SpecRank == Init /\ [][NextRank]_vars

\* The breakdown specification: page views from different browsers and
\* referers handled one after the other, and the breakdown query.
NextGeo ==
  \/ \E request \in GeoRequests : TrackReceive(1, request, MaxGeoCalls)
  \/ TrackSave(1, FALSE)
  \/ GetGeographic("30d")

SpecGeo == Init /\ [][NextGeo]_vars

\* The classifier specification: the track handler classifies the user agent
\* of any request, the breakdown query the referers of the stored events.
NextClassify ==
  \/ \E request \in GeoRequests : TrackReceive(1, request, MaxClassifyCalls)
  \/ TrackSave(1, FALSE)
  \/ GetGeographic("30d")

SpecClassify == Init /\ [][NextClassify]_vars

\* The client specification: the tracker of one browser tab on its own.
NextClient ==
  \/ \E location \in Locations : Navigate(location)
  \/ TimerFires
  \/ \E scrollPercent \in ScrollPercents : Scroll(scrollPercent)
  \/ \E unloaded \in BOOLEAN : BeforeUnload(unloaded)
  \/ \E d \in TrackerSteps : TrackerTick(d)

SpecClient == Init /\ [][NextClient]_vars

\* The tracker specification: one browser tab whose calls the track endpoint
\* handles one after the other, in the order they were sent.
NextTracker ==
  \/ \E location \in Locations : Navigate(location)
  \/ TimerFires
  \/ \E scrollPercent \in ScrollPercents : Scroll(scrollPercent)
  \/ \E unloaded \in BOOLEAN : BeforeUnload(unloaded)
  \/ \E d \in TrackerSteps : TrackerTick(d)
  \/ /\ Len(hist.log) < Len(tracker.sent)
     /\ TrackReceive(1, ReqBody(tracker.sent[Len(hist.log) + 1].data), MaxTrackerCalls)
  \/ TrackSave(1, FALSE)

SpecTracker == Init /\ [][NextTracker]_vars

\* The reads specification: concurrent requests reading one post.
NextReads ==
  \/ \E r \in Readers, route \in Routes : ReadFind(r, route)
  \/ \E r \in Readers : ReadSave(r)

SpecReads == Init /\ [][NextReads]_vars

\* The cache specification: overlapping cachedGet calls of one client.
NextCache ==
  \/ \E key \in CacheKeys, ttl \in Ttls : CachedGet(key, ttl)
  \/ \E i \in 1 .. MaxCacheCalls : FetchReturns(i)
  \/ CacheTick

SpecCache == Init /\ [][NextCache]_vars

\* The limiter specification: requests of two keys, the sweep at any time.
NextLimit ==
  \/ \E key \in LimitKeys : RateLimit(key)
  \/ Sweep
  \/ \E d \in LimiterSteps : LimiterTick(d)

SpecLimit == Init /\ [][NextLimit]_vars

\* ------------------------------------------------------------------ properties
\* No track request is between two of its awaits.
Quiet == \A c \in Slots : slot[c].pc \in {"idle", "done"}

\* The track requests received so far that carry a path and the postId p.
ReceivedFor(p) ==
  Cardinality({i \in DOMAIN hist.log : hist.log[i].path # None /\ hist.log[i].postId = p})

\* The PostAnalytics documents of post p.
DocsOf(p) == {i \in DOMAIN postAnalytics : postAnalytics[i].post = p}

\* C1: once all the concurrent track calls for a post have completed, its
\* totalViews equals the number of calls that were answered 200, which is
\* every call (K) when no storage operation failed: no increment is lost.
C1_NoLostIncrement ==
  Quiet =>
    \A p \in Posts :
      /\ ViewsOf(postAnalytics, p) = hist.ok[p]
      /\ hist.failures = 0 => ViewsOf(postAnalytics, p) = ReceivedFor(p)

\* Two calls for P1 completed, one of them applied to a document that another
\* call had changed after the first one's filter was evaluated.
C1_Witness ==
  /\ Quiet
  /\ hist.raced
  /\ hist.failures = 0
  /\ ReceivedFor("P1") >= 2
  /\ ViewsOf(postAnalytics, "P1") = ReceivedFor("P1")

\* C2: in every state, also between the steps of concurrent track calls, a
\* viewHistory holds at most 30 entries.
C2_HistoryBounded ==
  \A i \in DOMAIN postAnalytics : Len(postAnalytics[i].viewHistory) <= HistoryCap

\* Two calls are about to push to a viewHistory that is full and has already
\* evicted an entry.
C2_Witness ==
  /\ \A c \in Slots : slot[c].pc = "apply" /\ slot[c].body.postId = "P1"
  /\ FindPost(postAnalytics, "P1") # 0
  /\ Len(postAnalytics[FindPost(postAnalytics, "P1")].viewHistory) = HistoryCap
  /\ Len(hist.pushLog["P1"]) > HistoryCap

\* C3: after more than 30 entries were pushed to a post's viewHistory, it
\* holds exactly 30 entries: the 30 pushed last, oldest first.
C3_KeepsLastThirty ==
  \A p \in Posts :
    Len(hist.pushLog[p]) > HistoryCap =>
      /\ FindPost(postAnalytics, p) # 0
      /\ Len(postAnalytics[FindPost(postAnalytics, p)].viewHistory) = HistoryCap
      /\ postAnalytics[FindPost(postAnalytics, p)].viewHistory = LastN(hist.pushLog[p], HistoryCap)

\* More than 30 entries were pushed, and the retained ones are not all alike.
C3_Witness ==
  /\ Quiet
  /\ Len(hist.pushLog["P1"]) > HistoryCap + 1
  /\ LET h == postAnalytics[FindPost(postAnalytics, "P1")].viewHistory
     IN  Len(h) = HistoryCap /\ h[1].date # h[HistoryCap].date

\* C4: find-or-create is atomic: a post never has two PostAnalytics documents,
\* it has one as soon as a call for it was answered 200, and without storage
\* failures every call for it is answered 200, whichever call created the
\* document.
C4_AtomicFindOrCreate ==
  /\ \A p \in Posts : Cardinality(DocsOf(p)) <= 1
  /\ \A p \in Posts : hist.ok[p] >= 1 => Cardinality(DocsOf(p)) = 1
  /\ (Quiet /\ hist.failures = 0) => \A p \in Posts : hist.ok[p] = ReceivedFor(p)

\* Two calls for P1 found no document; one created it and the other, applied
\* afterwards, was answered 200 as well.
C4_Witness ==
  /\ Quiet
  /\ hist.createRaced
  /\ hist.failures = 0
  /\ hist.ok["P1"] >= 2
  /\ Cardinality(DocsOf("P1")) = 1

\* C5: a track request that carries a path is always answered with success,
\* also when a storage operation failed.
C5_AlwaysSuccess ==
  \A c \in Slots :
    (slot[c].pc = "done" /\ slot[c].body.path # None) => slot[c].status = StatusOk

\* C6: a track request without path is answered with a 4xx status, and it is
\* the only request answered with an error.
C6_MissingPathIsClientError ==
  \A c \in Slots :
    slot[c].pc = "done" =>
      /\ slot[c].body.path = None => slot[c].status \in 400 .. 499
      /\ slot[c].status >= 400 => slot[c].body.path = None

\* The first calls (page views) and the close-out calls (with a duration)
\* among the received track requests that carry a path.
FirstCalls == {i \in DOMAIN hist.log : hist.log[i].path # None /\ hist.log[i].duration = NoNumber}
CloseOuts == {i \in DOMAIN hist.log : hist.log[i].path # None /\ hist.log[i].duration # NoNumber}

\* C7: one page view yields one VisitEvent: as long as every close-out call
\* follows the first call of its page view, the Event Store holds at most one
\* event per first call.
C7_OneEventPerPageView ==
  (\A i \in CloseOuts :
     \E j \in FirstCalls : j < i /\ hist.log[j].sessionId = hist.log[i].sessionId
                                 /\ hist.log[j].postId = hist.log[i].postId)
    => Len(pageViews) <= Cardinality(FirstCalls)

\* The scenario's four calls: each session's view of P1, then its close-out.
ScenarioLogs ==
  LET v1 == Body("/post", "P1", "s1", NoNumber, NoNumber)
      c1 == Body("/post", "P1", "s1", 30, 80)
      v2 == Body("/post", "P1", "s2", NoNumber, NoNumber)
      c2 == Body("/post", "P1", "s2", 10, 40)
  IN  {<<v1, c1, v2, c2>>, <<v1, v2, c1, c2>>, <<v1, v2, c2, c1>>,
       <<v2, c2, v1, c1>>, <<v2, v1, c2, c1>>, <<v2, v1, c1, c2>>}

\* C8: after the scenario, top content over "all" lists P1 with 2 views and the
\* engagement summary reports an average duration of 20 and scroll depth of 60.
C8_Scenario ==
  (Quiet /\ hist.log \in ScenarioLogs) =>
    /\ \A r \in PopularPosts("all", DefaultLimit) :
         \E i \in DOMAIN r : r[i].post = "P1" /\ r[i].views = 2
    /\ Engagement.avgDuration = 20
    /\ Engagement.avgScrollDepth = 60

\* The growth the overview is specified to report.
SpecifiedGrowth(todayViews, yesterdayViews) ==
  IF yesterdayViews > 0 THEN MathRound((todayViews - yesterdayViews) * 100, yesterdayViews)
  ELSE IF todayViews > 0 THEN 100
  ELSE 0

\* C9: the overview's viewsGrowth is round((today - yesterday) / yesterday * 100)
\* when yesterday > 0, 100 when yesterday = 0 < today, and 0 when both are 0.
C9_GrowthFormula ==
  reply.kind = "overview" =>
    reply.viewsGrowth = SpecifiedGrowth(reply.todayViews, reply.yesterdayViews)

\* The bounce rate over all the events of the measured period, whatever their
\* duration.
SpecifiedBounceRate ==
  LET lastMonth == DaysBefore(now, EngagementDays)
      InPeriod(e) == e.createdAt >= lastMonth
      events == SelectSeq(pageViews, InPeriod)
      S == SessionsOf(events)
      B == {se \in S : EventsOfSession(events, se) = 1}
  IN  IF S = {} THEN 0 ELSE MathRound(100 * Cardinality(B), Cardinality(S))

\* C10: the engagement query's bounceRate is round(100 * B / S) over the
\* sessions of the period, whatever the duration recorded on their events.
C10_BounceRate ==
  reply.kind = "engagement" => reply.bounceRate = SpecifiedBounceRate

\* The stored PageViews that are at most 5 minutes old.
InWindow == {i \in DOMAIN pageViews : now - pageViews[i].createdAt <= RealtimeMinutes}

\* C11: the real-time query counts exactly the events whose timestamp is at
\* or after now - 5 minutes: their number, their distinct session ids and
\* their distinct paths; an older event, which stays in the store, is counted
\* by no query.
C11_RealtimeWindow ==
  reply.kind = "realtime" =>
    /\ reply.pageViews = Cardinality(InWindow)
    /\ reply.activeVisitors = Cardinality({pageViews[i].sessionId : i \in InWindow})
    /\ reply.activePages = Cardinality({pageViews[i].path : i \in InWindow})

\* The query is answered when one event is 6 minutes old and another one 4:
\* it counts the second only.
C11_Witness ==
  /\ reply.kind = "realtime"
  /\ \E i \in DOMAIN pageViews : now - pageViews[i].createdAt = 6
  /\ \E i \in DOMAIN pageViews : now - pageViews[i].createdAt = 4
  /\ Len(pageViews) = 2
  /\ reply.pageViews = 1

\* The three collections.
stores == <<pageViews, postAnalytics, dailyStats>>

\* C12: a step that answers a query leaves PageView, PostAnalytics and
\* DailyStats unchanged, also while track calls are between their writes; a
\* step that changes one of them is a write of a track call.
C12_QueriesReadOnly ==
  [][/\ reply' # NoReply => UNCHANGED stores
     /\ stores' # stores =>
          \E c \in Slots : slot[c].pc \in {"save", "apply"} /\ slot'[c] # slot[c]]_vars

\* A query was answered while one track call was between its two writes and
\* another one was about to make its first.
C12_Witness ==
  /\ reply.kind # "none"
  /\ \E c \in Slots : slot[c].pc = "apply"
  /\ \E c \in Slots : slot[c].pc = "save"
  /\ Len(pageViews) >= 1

\* C13: every stored event carries a session id that a client supplied in a
\* track request: the endpoint invents none.
C13_NoFabricatedIdentity ==
  \A i \in DOMAIN pageViews :
    \E j \in DOMAIN hist.log :
      hist.log[j].sessionId # None /\ pageViews[i].sessionId = hist.log[j].sessionId

\* The distinct sessions among the stored events of post p.
SessionsSeen(p) == {pageViews[i].sessionId : i \in {j \in DOMAIN pageViews : pageViews[j].post = p}}

\* C14: once the track calls have completed without storage failure, the
\* uniqueViews of a post's accumulator is the number of distinct sessions that
\* viewed the post.
C14_UniqueViews ==
  (Quiet /\ hist.failures = 0) =>
    \A p \in Posts :
      FindPost(postAnalytics, p) # 0 =>
        postAnalytics[FindPost(postAnalytics, p)].uniqueViews = Cardinality(SessionsSeen(p))

\* The close-out calls received for post p.
CloseOutsOf(p) ==
  LET IsCloseOut(b) == b.path # None /\ b.duration # NoNumber /\ b.postId = p
  IN  SelectSeq(hist.log, IsCloseOut)

\* C15: once the track calls have completed without storage failure, the
\* avgDuration and avgScrollDepth of a post's accumulator are the arithmetic
\* means of the samples of the post's n close-outs.
C15_RunningMeans ==
  (Quiet /\ hist.failures = 0) =>
    \A p \in Posts :
      LET samples == CloseOutsOf(p)
          n == Len(samples)
      IN  n > 0 =>
            /\ FindPost(postAnalytics, p) # 0
            /\ postAnalytics[FindPost(postAnalytics, p)].avgDuration * n
                 = SumSeq([i \in DOMAIN samples |-> samples[i].duration])
            /\ postAnalytics[FindPost(postAnalytics, p)].avgScrollDepth * n
                 = SumSeq([i \in DOMAIN samples |-> samples[i].scrollDepth])

\* The stored events of the period of the series just answered, and the
\* bucket of each.
InSeries == {i \in DOMAIN pageViews : pageViews[i].createdAt >= SeriesStart(reply.period)}
BucketOf(i) == DateToString(SeriesFormat(reply.period), pageViews[i].createdAt)

\* C16: the series has a point for every bucket that holds an event of the
\* period and for no other; a point's views is the number of the bucket's
\* events, its uniqueVisitors the number of their distinct session ids; the
\* points are in strictly ascending order of date.
C16_SeriesPoints ==
  reply.kind = "views-over-time" =>
    /\ \A i \in InSeries : \E k \in DOMAIN reply.points : reply.points[k].date = BucketOf(i)
    /\ \A k \in DOMAIN reply.points :
         LET bucket == {i \in InSeries : BucketOf(i) = reply.points[k].date}
         IN  /\ bucket # {}
             /\ reply.points[k].views = Cardinality(bucket)
             /\ reply.points[k].uniqueVisitors = Cardinality({pageViews[i].sessionId : i \in bucket})
    /\ \A k, l \in DOMAIN reply.points :
         k < l => DateLess(reply.points[k].date, reply.points[l].date)

\* A series of two points with days without events between them; the first
\* point counts two events of one session.
C16_Witness ==
  /\ reply.kind = "views-over-time"
  /\ reply.period = "30d"
  /\ Len(reply.points) = 2
  /\ reply.points[1].date = <<1970, 1, 1>>
  /\ reply.points[1].views = 2
  /\ reply.points[1].uniqueVisitors = 1
  /\ reply.points[2].date = <<1970, 1, 8>>

\* The start of the period a period value stands for.
SpecifiedStart(period) ==
  IF period = "7d" THEN DaysBefore(now, 7)
  ELSE IF period = "30d" THEN DaysBefore(now, 30)
  ELSE IF period = "90d" THEN DaysBefore(now, 90)
  ELSE IF period = "1y" THEN YearsBefore(now, 1)
  ELSE 0

\* C17: a series answered for a period covers exactly the events of the last
\* 7, 30 or 90 days, of the last year, or of all time, in daily buckets, or in
\* monthly ones for 1y.
C17_PeriodsHonoured ==
  reply.kind = "views-over-time" =>
    /\ SumSeq([k \in DOMAIN reply.points |-> reply.points[k].views])
         = Cardinality({i \in DOMAIN pageViews : pageViews[i].createdAt >= SpecifiedStart(reply.period)})
    /\ \A k \in DOMAIN reply.points :
         Len(reply.points[k].date) = IF reply.period = "1y" THEN 2 ELSE 3

\* The views of the stored events that reference post po, or a post of
\* author u.
ViewsOfPost(po) == Cardinality({i \in DOMAIN pageViews : pageViews[i].post = po})
ViewsOfAuthor(u) ==
  Cardinality({i \in DOMAIN pageViews : pageViews[i].post \in Posts /\ PostAuthor[pageViews[i].post] = u})

\* C18: the two rankings are in non-increasing order of views, hold at most
\* `limit` entries with the view counts of the period, and are determined by
\* the stored events: the query has one possible result.
C18_RankingDeterministic ==
  \A limit \in Limits :
    /\ \A r \in PopularPosts("all", limit) :
         /\ Len(r) <= limit
         /\ \A i, j \in DOMAIN r : i < j => r[i].views >= r[j].views
         /\ \A i \in DOMAIN r : r[i].views = ViewsOfPost(r[i].post)
    /\ \A r \in PopularAuthors("all", limit) :
         /\ Len(r) <= limit
         /\ \A i, j \in DOMAIN r : i < j => r[i].totalViews >= r[j].totalViews
         /\ \A i \in DOMAIN r : r[i].totalViews = ViewsOfAuthor(r[i].author)
    /\ Cardinality(PopularPosts("all", limit)) = 1
    /\ Cardinality(PopularAuthors("all", limit)) = 1

\* The smaller of two numbers.
Min(a, b) == IF a <= b THEN a ELSE b

\* C19: with dangling references, and no two posts with equal views, top
\* content holds only posts that resolve, min(limit, n) of the n viewed posts
\* that resolve, and none of those it leaves out has more views than one it
\* holds.
C19_DanglingOnlyOmitted ==
  \A limit \in Limits :
    LET groups == PopularGroups("all")
        resolving == {g \in groups : Resolves(g)}
    IN  (\A g, h \in groups : g # h => g.views # h.views) =>
          \A r \in PopularPosts("all", limit) :
            /\ \A i \in DOMAIN r : r[i] \in resolving
            /\ Len(r) = Min(limit, Cardinality(resolving))
            /\ \A i \in DOMAIN r :
                 \A g \in resolving \ {r[k] : k \in DOMAIN r} : r[i].views >= g.views

\* C20: each list of the breakdown is in non-increasing order of count;
\* countries holds at most 20 entries and referrers at most 10; devices and
\* browsers hold every value that occurs in the period.
C20_BreakdownsSorted ==
  reply.kind = "geographic" =>
    LET events == GeoMatch(reply.period)
    IN  /\ \A i, j \in DOMAIN reply.countries :
             i < j => reply.countries[i].views >= reply.countries[j].views
        /\ \A i, j \in DOMAIN reply.devices :
             i < j => reply.devices[i].count >= reply.devices[j].count
        /\ \A i, j \in DOMAIN reply.browsers :
             i < j => reply.browsers[i].count >= reply.browsers[j].count
        /\ \A i, j \in DOMAIN reply.referrers :
             i < j => reply.referrers[i].count >= reply.referrers[j].count
        /\ Len(reply.countries) <= CountryLimit
        /\ Len(reply.referrers) <= ReferrerLimit
        /\ {reply.devices[i].device : i \in DOMAIN reply.devices}
             = {events[i].device : i \in DOMAIN events}
        /\ {reply.browsers[i].browser : i \in DOMAIN reply.browsers}
             = {events[i].browser : i \in DOMAIN events}

\* C21: the referrers of the breakdown are grouped by classified source:
\* no source occurs twice, and a source's count is the number of events of
\* the period whose referer classifies to it.
C21_GroupedBySource ==
  reply.kind = "geographic" =>
    LET events == GeoMatch(reply.period)
    IN  /\ \A i, j \in DOMAIN reply.referrers :
             i # j => reply.referrers[i].source # reply.referrers[j].source
        /\ \A i \in DOMAIN reply.referrers :
             reply.referrers[i].count
               = Cardinality({k \in DOMAIN events :
                                getReferrerSource(events[k].referer) = reply.referrers[i].source})

\* The words of a user agent in lower case.
LowerWords(userAgent) == {ToLowerCase[w] : w \in userAgent}

\* The words the rules of getBrowser and of getOS look for.
BrowserWords == {"Firefox", "Chrome", "Safari", "Edge", "Opera"}
OSWords == {"Windows", "Mac", "Linux", "Android", "iOS", "iPhone"}

\* C22: for every stored event, a user agent with a tablet pattern is
\* classified tablet, also when it has a mobile pattern; one with a mobile
\* pattern only is mobile; a user agent that matches no rule is classified
\* unknown (device) and Other (browser, OS).
C22_FirstMatchWins ==
  \A i \in DOMAIN pageViews :
    LET e == pageViews[i]
        ua == LowerWords(e.userAgent)
    IN  e.userAgent # NoHeader =>
          /\ ua \cap TabletPattern # {} => e.device = "tablet"
          /\ (ua \cap TabletPattern = {} /\ ua \cap MobilePattern # {}) => e.device = "mobile"
          /\ ua \cap (TabletPattern \cup MobilePattern) = {} => e.device = "unknown"
          /\ e.userAgent \cap BrowserWords = {} => e.browser = "Other"
          /\ e.userAgent \cap OSWords = {} => e.os = "Other"

\* The values the classifiers return.
DeviceClasses == {"desktop", "mobile", "tablet", "unknown"}
BrowserNames == {"Firefox", "Chrome", "Safari", "Edge", "Opera", "Other", "Unknown"}
OSNames == {"Windows", "macOS", "Linux", "Android", "iOS", "Other", "Unknown"}

C25_WritesTogether ==
  Quiet => \A p \in Posts : ViewsOf(postAnalytics, p) = ViewsOfPost(p)

\* The calls the tracker sent for page view v: the first call carries no
\* duration, the close-out carries one.
ViewCalls(v) ==
  {k \in DOMAIN tracker.sent : tracker.sent[k].view = v /\ tracker.sent[k].data.duration = NoNumber}

CloseOutCalls(v) ==
  {k \in DOMAIN tracker.sent : tracker.sent[k].view = v /\ tracker.sent[k].data.duration # NoNumber}

PageViewsShown == 1 .. tracker.view

\* C24: once the track endpoint has handled every call of the tracker, the
\* totalViews of each post is the number of page-view calls the tracker sent
\* from the detail page of that post.
C24_TrackerViewCounted ==
  (Quiet /\ Len(hist.log) = Len(tracker.sent)) =>
    \A p \in Posts :
      ViewsOf(postAnalytics, p) =
        Cardinality({k \in DOMAIN tracker.sent :
                       /\ tracker.sent[k].data.duration = NoNumber
                       /\ tracker.sent[k].data.postSlug = PostSlug[p]})

\* C26: a run of trackEngagement() sends the close-out exactly when the
\* stay is at least 5 seconds, and no page view has two close-outs.
C26_CloseOutWhenStayed ==
  /\ \A i \in DOMAIN tracker.left :
       tracker.left[i].reported <=> tracker.left[i].stay >= MinDuration * MsPerSecond
  /\ \A v \in PageViewsShown : Cardinality(CloseOutCalls(v)) <= 1

C28_NoViewLost ==
  (\A r \in Readers : blog.reader[r].pc = "idle") => blog.views = blog.served

\* C29: the last set() on a full cache with a new key removed exactly the
\* least recently used key, the last set() of a cached key removed no key,
\* and the cache holds at most maxEntries entries.
C29_EvictsLeastRecent ==
  LET last == apiCache.lastSet
  IN  /\ (last.key # None /\ last.key \notin last.before /\ Cardinality(last.before) = maxEntries) =>
           last.before \ last.after = {last.lru}
      /\ (last.key # None /\ last.key \in last.before) => last.before \subseteq last.after
      /\ Len(apiCache.entries) <= maxEntries

\* C30: no window a record opened holds more than maxRequests requests
\* that were let through, a request that follows maxRequests such requests
\* of its window is answered 429, and the sweep has removed no record
\* whose window was open.
C30_WindowHolds ==
  /\ \A key \in LimitKeys :
       \A i \in DOMAIN userRateLimits.windows[key] :
         Cardinality(InWindowOf(userRateLimits.passedAt[key], userRateLimits.windows[key][i]))
           <= maxRequests
  /\ (userRateLimits.last.key # None /\ userRateLimits.last.earlier >= maxRequests) =>
       userRateLimits.last.status = StatusTooMany
  /\ ~userRateLimits.sweptOpen

C30_Witness ==
  /\ userRateLimits.last.status = StatusTooMany
  /\ userRateLimits.swept > 0
  /\ \E key \in LimitKeys : Len(userRateLimits.windows[key]) > 1
====
